---- MODULE Spec2Model ----
(***************************************************************************)
(* The multi-agent question-answering workflow of backend/app/agents:      *)
(* the LangGraph state graph of graph.py and the five agents it runs       *)
(* (query understanding, SQL generation, data retrieval, validation,       *)
(* insight generation).  The workflow state is a Python dict; it is        *)
(* modelled as a function from key names to values, so that an absent key  *)
(* (state.get(key, default)) differs from a key holding None.              *)
(***************************************************************************)
EXTENDS Integers, Sequences, FiniteSets, TLC

VARIABLES
    state,       \* the GraphState dict of the running request
    pc,          \* the node the graph runs next: "start", a node name, "Done"
    use_duckdb,  \* DataService.use_duckdb, fixed when the service is built
    trace,       \* history: the nodes run so far, oldest first
    verdicts,    \* history: the verdict of every validation run
    routeBacks,  \* history: how often validation routed back to sql_generation
    produced,    \* history: the cleaned text of every synthesizer answer
    calls,       \* history: the external calls made so far and their results
    context,     \* history: the error context of every synthesizer prompt
    requests,    \* the requests in flight when several run at once
    heap,        \* the list objects their sql_attempts keys refer to
    executed,    \* history: the query texts handed to the execution engine
    cache,       \* CacheService._cache: key -> (value, expiry)
    enabled,     \* CacheService.enabled, fixed when the service is built
    ttl,         \* CacheService.ttl, fixed when the service is built
    now,         \* time.time()
    lastSet,     \* history: per key, the latest set since its last removal
    got,         \* history: the get just performed and what it returned
    active_connections,  \* ConnectionManager.active_connections
    sessions,    \* where each handle_websocket call stands
    sent         \* history: the kinds of message sent to each client

vars ==
    <<state, pc, use_duckdb, trace, verdicts, routeBacks, produced, calls, context,
      requests, heap, executed, cache, enabled, ttl, now, lastSet, got,
      active_connections, sessions, sent>>

\* the part of the state that only concurrent requests use
concurrent == <<requests, heap>>

\* the state of the cache service
cacheVars == <<cache, enabled, ttl, now, lastSet, got>>

\* the state of the WebSocket connection manager and its sessions
wsVars == <<active_connections, sessions, sent>>

\* the state of the services that the workflow does not touch
services == <<cacheVars, wsVars>>

\* the state of the workflow of one request
workflow ==
    <<state, pc, use_duckdb, trace, verdicts, routeBacks, produced, calls, context,
      executed>>

(***************************************************************************)
(* Bounds of the model.                                                    *)
(***************************************************************************)
\* the longest result set the execution engine returns
MaxRows == 2
\* a cap on the number of node runs of one request
MaxSteps == 12

(***************************************************************************)
(* Python values.                                                          *)
(***************************************************************************)
\* None in a field that otherwise holds a string
None == "None"
\* None in a field that otherwise holds a list or a text
NoneList == <<"None">>

\* bool(x) of a list, a text or None
Truthy(x) == x # NoneList /\ x # <<>>
\* bool(x) of an opaque string token or None
TruthyStr(x) == x # None /\ x # ""

\* dict.get(k, d)
Get(s, k, d) == IF k \in DOMAIN s THEN s[k] ELSE d

Min(a, b) == IF a < b THEN a ELSE b

\* a reducer that adds an integer update to the stored value
LastValue_Adding(k, old, v) == IF k = "retry_count" THEN old + v ELSE v

\* the value a channel holds after a node wrote v over old: every key of
\* GraphState is a plain annotation, so the last value written wins
LastValue(k, old, v) == v

\* the state replaced by a node's update instead of merged with it
Merge_Replace(s, u) == u

\* LangGraph's merge of a node's partial update into the state
Merge(s, u) ==
    [k \in DOMAIN s \cup DOMAIN u |->
        IF k \in DOMAIN u
        THEN IF k \in DOMAIN s THEN LastValue(k, s[k], u[k]) ELSE u[k]
        ELSE s[k]]

(***************************************************************************)
(* Texts returned by the SQL synthesizer are sequences of tokens; a token  *)
(* is a run of whitespace, a code fence, the word sql or a piece of query  *)
(* text.                                                                   *)
(***************************************************************************)
WS == " "
\* the token for a code fence (three backquotes)
Fence == "fence"

RECURSIVE LStrip(_)
LStrip(x) == IF x # <<>> /\ Head(x) = WS THEN LStrip(Tail(x)) ELSE x

RECURSIVE RStrip(_)
RStrip(x) ==
    IF x # <<>> /\ x[Len(x)] = WS THEN RStrip(SubSeq(x, 1, Len(x) - 1)) ELSE x

\* str.strip()
Strip(x) == RStrip(LStrip(x))

\* str.startswith(p), str.endswith(p)
StartsWith(x, p) == Len(x) >= Len(p) /\ SubSeq(x, 1, Len(p)) = p
EndsWith(x, p) == Len(x) >= Len(p) /\ SubSeq(x, Len(x) - Len(p) + 1, Len(x)) = p

\* the clean-up of the synthesizer's answer
CleanSql(raw) ==
    LET a == Strip(raw)
        b == IF StartsWith(a, <<Fence, "sql">>) THEN SubSeq(a, 3, Len(a)) ELSE a
        c == IF StartsWith(b, <<Fence>>) THEN SubSeq(b, 2, Len(b)) ELSE b
        d == IF EndsWith(c, <<Fence>>) THEN SubSeq(c, 1, Len(c) - 1) ELSE c
    IN  Strip(d)

\* the answers the synthesizer gives in the model
RawOutputs ==
    { <<"SELECT">>,
      <<Fence, "sql", WS, "SELECT", WS, Fence>>,
      <<Fence, Fence>>,
      <<"gibberish">> }

\* DataService.validate_sql without DuckDB: the text holds a SQL keyword
HasKeyword(sql) == \E i \in 1..Len(sql) : sql[i] = "SELECT"

\* a validator that trusts every text
ValidateSql_Unchecked(sql, engineAccepts) == TRUE

\* DataService.validate_sql; with DuckDB the verdict is that of the engine's
\* EXPLAIN of the text, which is a syntax error when the text is empty
ValidateSql(sql, engineAccepts) ==
    IF use_duckdb THEN engineAccepts /\ sql # <<>> ELSE HasKeyword(sql)

(***************************************************************************)
(* Result rows.  A row is a token; nullrow is a row all of whose values    *)
(* are None.                                                               *)
(***************************************************************************)
Rows == {"row", "nullrow"}
AllNull(r) == r = "nullrow"
RowKeys(r) == <<"c1", "c2">>

RECURSIVE SeqsUpTo(_, _)
SeqsUpTo(S, n) ==
    IF n = 0 THEN {<<>>}
    ELSE LET shorter == SeqsUpTo(S, n - 1)
         IN  shorter \cup {Append(q, x) : q \in {r \in shorter : Len(r) = n - 1}, x \in S}

ResultSets == SeqsUpTo(Rows, MaxRows)

\* the number of leading rows the validation agent inspects for nulls
NullCheckRows == 10

(***************************************************************************)
(* Routing functions of the graph.                                         *)
(***************************************************************************)
should_generate_sql_Always(s) == "sql_generation"

should_generate_sql(s) ==
    LET query_type == Get(s, "query_type", None)
    IN  IF query_type \in {"qa", "dashboard"} THEN "sql_generation"
        ELSE IF query_type = "summarization" THEN "insight_generation"
        ELSE "sql_generation"

\* the retry router with the budget test made inclusive
should_retry_sql_Inclusive(s) ==
    LET validation_passed == Get(s, "validation_passed", FALSE)
        retry_count == Get(s, "retry_count", 0)
    IN  IF ~validation_passed /\ retry_count <= 2 THEN "sql_generation"
        ELSE "insight_generation"

should_retry_sql(s) ==
    LET validation_passed == Get(s, "validation_passed", FALSE)
        retry_count == Get(s, "retry_count", 0)
    IN  IF ~validation_passed /\ retry_count < 2 THEN "sql_generation"
        ELSE "insight_generation"

(***************************************************************************)
(* The agents: each maps the state and the outcome of its external calls   *)
(* to the partial update it returns.                                       *)
(***************************************************************************)
\* the query understanding agent with the classifier's category kept as
\* answered
QueryUnderstandingUpdate_PassThrough(s, o) ==
    IF o.kind = "raise"
    THEN [query_type |-> "qa",
          intent |-> Get(s, "user_query", ""),
          entities |-> "{}",
          errors |-> Get(s, "errors", <<>>) \o <<"Query understanding error">>]
    ELSE [query_type |-> IF o.kind = "ok" THEN o.query_type ELSE "qa",
          intent |-> IF o.kind = "ok" THEN "llm_intent" ELSE Get(s, "user_query", ""),
          entities |-> IF o.kind = "ok" THEN "llm_entities" ELSE "{}"]

\* query_understanding_agent.  o.kind: "raise" (the LLM call fails),
\* "garbled" (the answer is not JSON: generate_json returns its error
\* dict), "ok" (a JSON object with query_type o.query_type)
QueryUnderstandingUpdate(s, o) ==
    IF o.kind = "raise"
    THEN [query_type |-> "qa",
          intent |-> Get(s, "user_query", ""),
          entities |-> "{}",
          errors |-> Get(s, "errors", <<>>) \o <<"Query understanding error">>]
    ELSE LET query_type_str == IF o.kind = "ok" THEN o.query_type ELSE "qa"
             intent == IF o.kind = "ok" THEN "llm_intent" ELSE Get(s, "user_query", "")
             entities == IF o.kind = "ok" THEN "llm_entities" ELSE "{}"
         IN  [query_type |-> IF query_type_str \in {"summarization", "qa", "dashboard"}
                             THEN query_type_str ELSE "qa",
              intent |-> intent,
              entities |-> entities]

\* the number of trailing errors entries a retry prompt quotes
ErrorContextSize == 3

\* errors[-n:]
LastN(seq, n) == SubSeq(seq, Len(seq) - Min(n, Len(seq)) + 1, Len(seq))

\* the retry prompt quoting the trailing entries on every run
RetryContext_EveryRun(s) ==
    LET errors == Get(s, "errors", <<>>)
    IN  IF errors # <<>> THEN LastN(errors, ErrorContextSize) ELSE <<>>

\* the errors entries the synthesizer's prompt quotes
RetryContext(s) ==
    LET retry_count == Get(s, "retry_count", 0)
        errors == Get(s, "errors", <<>>)
    IN  IF retry_count > 0 /\ errors # <<>>
        THEN LastN(errors, ErrorContextSize) ELSE <<>>

\* the SQL generation agent with the attempt list left out of the update
\* it returns for a text the engine rejects
SqlGenerationUpdate_DropAttempts(s, o) ==
    IF ~TruthyStr(Get(s, "file_metadata", None)) \/ ~TruthyStr(Get(s, "table_name", None))
    THEN [errors |-> Get(s, "errors", <<>>) \o <<"No file metadata or table name available">>,
          sql_valid |-> FALSE]
    ELSE IF o.kind = "raise"
    THEN [sql_valid |-> FALSE,
          errors |-> Get(s, "errors", <<>>) \o <<"SQL generation error">>]
    ELSE LET sql_query == CleanSql(o.raw)
             sql_attempts == Append(Get(s, "sql_attempts", <<>>), sql_query)
         IN  IF ~ValidateSql(sql_query, o.accepts)
             THEN [sql_query |-> sql_query,
                   sql_valid |-> FALSE,
                   errors |-> Get(s, "errors", <<>>) \o <<"Invalid SQL">>]
             ELSE [sql_query |-> sql_query,
                   sql_valid |-> TRUE,
                   sql_attempts |-> sql_attempts]

\* the SQL generation agent with the attempt list started afresh on every
\* run
SqlGenerationUpdate_RestartsAttempts(s, o) ==
    IF ~TruthyStr(Get(s, "file_metadata", None)) \/ ~TruthyStr(Get(s, "table_name", None))
    THEN [errors |-> Get(s, "errors", <<>>) \o <<"No file metadata or table name available">>,
          sql_valid |-> FALSE]
    ELSE IF o.kind = "raise"
    THEN [sql_valid |-> FALSE,
          errors |-> Get(s, "errors", <<>>) \o <<"SQL generation error">>]
    ELSE LET sql_query == CleanSql(o.raw)
             sql_attempts == <<sql_query>>
         IN  IF ~ValidateSql(sql_query, o.accepts)
             THEN [sql_query |-> sql_query,
                   sql_valid |-> FALSE,
                   sql_attempts |-> sql_attempts,
                   errors |-> Get(s, "errors", <<>>) \o <<"Invalid SQL">>]
             ELSE [sql_query |-> sql_query,
                   sql_valid |-> TRUE,
                   sql_attempts |-> sql_attempts]

\* the SQL generation agent without the test for a bound dataset
SqlGenerationUpdate_NoShortCircuit(s, o) ==
    IF o.kind = "raise"
    THEN [sql_valid |-> FALSE,
          errors |-> Get(s, "errors", <<>>) \o <<"SQL generation error">>]
    ELSE LET sql_query == CleanSql(o.raw)
             sql_attempts == Append(Get(s, "sql_attempts", <<>>), sql_query)
         IN  IF ~ValidateSql(sql_query, o.accepts)
             THEN [sql_query |-> sql_query,
                   sql_valid |-> FALSE,
                   sql_attempts |-> sql_attempts,
                   errors |-> Get(s, "errors", <<>>) \o <<"Invalid SQL">>]
             ELSE [sql_query |-> sql_query,
                   sql_valid |-> TRUE,
                   sql_attempts |-> sql_attempts]

\* sql_generation_agent.  o.kind: "raise" (the LLM call fails) or "ok"
\* (it answers o.raw); o.accepts: the engine's verdict on the text
SqlGenerationUpdate(s, o) ==
    IF ~TruthyStr(Get(s, "file_metadata", None)) \/ ~TruthyStr(Get(s, "table_name", None))
    THEN [errors |-> Get(s, "errors", <<>>) \o <<"No file metadata or table name available">>,
          sql_valid |-> FALSE]
    ELSE IF o.kind = "raise"
    THEN [sql_valid |-> FALSE,
          errors |-> Get(s, "errors", <<>>) \o <<"SQL generation error">>]
    ELSE LET sql_query == CleanSql(o.raw)
             sql_attempts == Append(Get(s, "sql_attempts", <<>>), sql_query)
         IN  IF ~ValidateSql(sql_query, o.accepts)
             THEN [sql_query |-> sql_query,
                   sql_valid |-> FALSE,
                   sql_attempts |-> sql_attempts,
                   errors |-> Get(s, "errors", <<>>) \o <<"Invalid SQL">>]
             ELSE [sql_query |-> sql_query,
                   sql_valid |-> TRUE,
                   sql_attempts |-> sql_attempts]

\* the data retrieval agent with the error list started afresh when the
\* engine fails
DataRetrievalUpdate_ReplacesErrors(s, o) ==
    LET sql_query == Get(s, "sql_query", NoneList)
        sql_valid == Get(s, "sql_valid", FALSE)
    IN  IF ~Truthy(sql_query) \/ ~sql_valid
        THEN [errors |-> Get(s, "errors", <<>>) \o <<"No valid SQL query to execute">>,
              query_results |-> <<>>,
              result_count |-> 0]
        ELSE IF o.kind = "raise"
        THEN [query_results |-> <<>>,
              result_count |-> 0,
              errors |-> <<"Data retrieval error">>]
        ELSE [query_results |-> o.rows,
              result_count |-> Len(o.rows)]

\* the data retrieval agent without the test of sql_valid
DataRetrievalUpdate_IgnoresValid(s, o) ==
    LET sql_query == Get(s, "sql_query", NoneList)
    IN  IF ~Truthy(sql_query)
        THEN [errors |-> Get(s, "errors", <<>>) \o <<"No valid SQL query to execute">>,
              query_results |-> <<>>,
              result_count |-> 0]
        ELSE IF o.kind = "raise"
        THEN [query_results |-> <<>>,
              result_count |-> 0,
              errors |-> Get(s, "errors", <<>>) \o <<"Data retrieval error">>]
        ELSE [query_results |-> o.rows,
              result_count |-> Len(o.rows)]

\* the data retrieval agent with the rows left as they were when there is
\* no valid query to execute
DataRetrievalUpdate_KeepsRows(s, o) ==
    LET sql_query == Get(s, "sql_query", NoneList)
        sql_valid == Get(s, "sql_valid", FALSE)
    IN  IF ~Truthy(sql_query) \/ ~sql_valid
        THEN [errors |-> Get(s, "errors", <<>>) \o <<"No valid SQL query to execute">>]
        ELSE IF o.kind = "raise"
        THEN [query_results |-> <<>>,
              result_count |-> 0,
              errors |-> Get(s, "errors", <<>>) \o <<"Data retrieval error">>]
        ELSE [query_results |-> o.rows,
              result_count |-> Len(o.rows)]

\* data_retrieval_agent.  o.kind: "raise" (the engine fails) or "ok" (it
\* returns o.rows)
DataRetrievalUpdate(s, o) ==
    LET sql_query == Get(s, "sql_query", NoneList)
        sql_valid == Get(s, "sql_valid", FALSE)
    IN  IF ~Truthy(sql_query) \/ ~sql_valid
        THEN [errors |-> Get(s, "errors", <<>>) \o <<"No valid SQL query to execute">>,
              query_results |-> <<>>,
              result_count |-> 0]
        ELSE IF o.kind = "raise"
        THEN [query_results |-> <<>>,
              result_count |-> 0,
              errors |-> Get(s, "errors", <<>>) \o <<"Data retrieval error">>]
        ELSE [query_results |-> o.rows,
              result_count |-> Len(o.rows)]

\* the structural findings of the validation agent
StructuralFindings(s) ==
    LET result_count == Get(s, "result_count", 0)
        results == Get(s, "query_results", <<>>)
    IN  (IF result_count = 0 THEN <<"No results returned">> ELSE <<>>)
        \o (IF Truthy(results)
               /\ \A i \in 1..Min(Len(results), NullCheckRows) : AllNull(results[i])
            THEN <<"All values are NULL">> ELSE <<>>)

\* the validation agent with the retry counter left as it was
ValidationUpdate_NoIncrement(s, o) ==
    IF o.kind = "raise"
    THEN [validation_passed |-> TRUE,
          validation_errors |-> <<"Validation error">>]
    ELSE LET is_valid == IF o.kind = "ok" THEN o.valid ELSE TRUE
             llm_issues == IF o.kind = "ok" THEN o.issues ELSE <<>>
             all_errors == StructuralFindings(s) \o llm_issues
             retry_count == Get(s, "retry_count", 0)
         IN  IF ~is_valid /\ retry_count < 2
             THEN [validation_passed |-> FALSE,
                   validation_errors |-> all_errors,
                   retry_count |-> retry_count]
             ELSE IF is_valid \/ retry_count >= 2
             THEN [validation_passed |-> TRUE,
                   validation_errors |-> <<>>]
             ELSE [validation_passed |-> FALSE,
                   validation_errors |-> all_errors]

\* the validation agent with the findings kept when the result is accepted
ValidationUpdate_KeepsIssues(s, o) ==
    IF o.kind = "raise"
    THEN [validation_passed |-> TRUE,
          validation_errors |-> <<"Validation error">>]
    ELSE LET is_valid == IF o.kind = "ok" THEN o.valid ELSE TRUE
             llm_issues == IF o.kind = "ok" THEN o.issues ELSE <<>>
             all_errors == StructuralFindings(s) \o llm_issues
             retry_count == Get(s, "retry_count", 0)
         IN  IF ~is_valid /\ retry_count < 2
             THEN [validation_passed |-> FALSE,
                   validation_errors |-> all_errors,
                   retry_count |-> retry_count + 1]
             ELSE IF is_valid \/ retry_count >= 2
             THEN [validation_passed |-> TRUE,
                   validation_errors |-> all_errors]
             ELSE [validation_passed |-> FALSE,
                   validation_errors |-> all_errors]

\* the validation agent with a structural finding counted as an invalid
\* verdict
ValidationUpdate_FindingsFail(s, o) ==
    IF o.kind = "raise"
    THEN [validation_passed |-> TRUE,
          validation_errors |-> <<"Validation error">>]
    ELSE LET is_valid == (IF o.kind = "ok" THEN o.valid ELSE TRUE)
                         /\ StructuralFindings(s) = <<>>
             llm_issues == IF o.kind = "ok" THEN o.issues ELSE <<>>
             all_errors == StructuralFindings(s) \o llm_issues
             retry_count == Get(s, "retry_count", 0)
         IN  IF ~is_valid /\ retry_count < 2
             THEN [validation_passed |-> FALSE,
                   validation_errors |-> all_errors,
                   retry_count |-> retry_count + 1]
             ELSE IF is_valid \/ retry_count >= 2
             THEN [validation_passed |-> TRUE,
                   validation_errors |-> <<>>]
             ELSE [validation_passed |-> FALSE,
                   validation_errors |-> all_errors]

\* validation_agent.  o.kind: "raise" (the LLM call fails), "garbled" (the
\* answer is not JSON), "ok" (a JSON object with valid = o.valid and issues
\* = o.issues)
\* the validation agent reading an absent retry_count as a spent budget
ValidationUpdate_BudgetSpentByDefault(s, o) ==
    IF o.kind = "raise"
    THEN [validation_passed |-> TRUE,
          validation_errors |-> <<"Validation error">>]
    ELSE LET is_valid == IF o.kind = "ok" THEN o.valid ELSE TRUE
             llm_issues == IF o.kind = "ok" THEN o.issues ELSE <<>>
             all_errors == StructuralFindings(s) \o llm_issues
             retry_count == Get(s, "retry_count", 2)
         IN  IF ~is_valid /\ retry_count < 2
             THEN [validation_passed |-> FALSE,
                   validation_errors |-> all_errors,
                   retry_count |-> retry_count + 1]
             ELSE IF is_valid \/ retry_count >= 2
             THEN [validation_passed |-> TRUE,
                   validation_errors |-> <<>>]
             ELSE [validation_passed |-> FALSE,
                   validation_errors |-> all_errors]

ValidationUpdate(s, o) ==
    IF o.kind = "raise"
    THEN [validation_passed |-> TRUE,
          validation_errors |-> <<"Validation error">>]
    ELSE LET is_valid == IF o.kind = "ok" THEN o.valid ELSE TRUE
             llm_issues == IF o.kind = "ok" THEN o.issues ELSE <<>>
             all_errors == StructuralFindings(s) \o llm_issues
             retry_count == Get(s, "retry_count", 0)
         IN  IF ~is_valid /\ retry_count < 2
             THEN [validation_passed |-> FALSE,
                   validation_errors |-> all_errors,
                   retry_count |-> retry_count + 1]
             ELSE IF is_valid \/ retry_count >= 2
             THEN [validation_passed |-> TRUE,
                   validation_errors |-> <<>>]
             ELSE [validation_passed |-> FALSE,
                   validation_errors |-> all_errors]

\* the narrative texts: a text is a sequence of tokens, a chart keyword
\* among them is the token "chart"
HasVizKeyword(text) == \E i \in 1..Len(text) : text[i] = "chart"

\* not insights, without the test for a whitespace-only text
Blank_NoneOnly(text) == ~Truthy(text)

\* not insights or not insights.strip()
Blank(text) == ~Truthy(text) \/ Strip(text) = <<>>

\* _generate_fallback_insights
FallbackInsights(s) ==
    LET results == Get(s, "query_results", <<>>)
        result_count == Get(s, "result_count", 0)
    IN  IF result_count = 0 THEN <<"No data found matching your query">>
        ELSE <<"Found records">> \o (IF Truthy(results) THEN <<"Sample data">> ELSE <<>>)

\* _extract_visualizations without the test for a chart keyword
ExtractVisualizations_NoKeywordTest(insights, results) ==
    IF ~Truthy(results) THEN <<>>
    ELSE IF Len(RowKeys(results[1])) >= 2
    THEN << [type |-> "bar",
             x_axis |-> RowKeys(results[1])[1],
             y_axis |-> RowKeys(results[1])[2]] >>
    ELSE <<>>

\* _extract_visualizations
ExtractVisualizations(insights, results) ==
    IF ~Truthy(results) THEN <<>>
    ELSE IF HasVizKeyword(insights) /\ Len(RowKeys(results[1])) >= 2
    THEN << [type |-> "bar",
             x_axis |-> RowKeys(results[1])[1],
             y_axis |-> RowKeys(results[1])[2]] >>
    ELSE <<>>

\* the answers the narrator gives in the model
NarratorTexts == { <<>>, <<WS>>, <<"text">>, <<"text", "chart">> }

\* the insight generation agent with its failure path resetting the
\* category, as the failure path of query understanding does
InsightGenerationUpdate_Reclassify(s, o) ==
    IF o.kind = "raise"
    THEN [insights |-> FallbackInsights(s),
          visualizations |-> <<>>,
          query_type |-> "qa",
          errors |-> Get(s, "errors", <<>>) \o <<"Insight generation error">>]
    ELSE LET insights == IF Blank(o.text) THEN FallbackInsights(s) ELSE o.text
         IN  [insights |-> insights,
              visualizations |->
                  ExtractVisualizations(insights, Get(s, "query_results", <<>>))]

\* insight_generation_agent.  o.kind: "raise" (the LLM call fails) or "ok"
\* (it answers o.text)
InsightGenerationUpdate(s, o) ==
    IF o.kind = "raise"
    THEN [insights |-> FallbackInsights(s),
          visualizations |-> <<>>,
          errors |-> Get(s, "errors", <<>>) \o <<"Insight generation error">>]
    ELSE LET insights == IF Blank(o.text) THEN FallbackInsights(s) ELSE o.text
         IN  [insights |-> insights,
              visualizations |->
                  ExtractVisualizations(insights, Get(s, "query_results", <<>>))]

(***************************************************************************)
(* The data part of the response chat() builds from the workflow's result. *)
(***************************************************************************)
\* the response with the attempt list shown as soon as it holds one text
ChatResponseData_AnyAttempt(result) ==
    LET query_results == Get(result, "query_results", NoneList)
        sql_attempts == Get(result, "sql_attempts", <<>>)
    IN  IF Truthy(query_results)
        THEN [present |-> TRUE,
              results |-> SubSeq(query_results, 1, Min(Len(query_results), 100)),
              count |-> Len(query_results),
              sql |-> Get(result, "sql_query", NoneList),
              sql_attempts |-> IF Len(sql_attempts) >= 1 THEN sql_attempts ELSE NoneList]
        ELSE [present |-> FALSE, results |-> NoneList, count |-> 0,
              sql |-> NoneList, sql_attempts |-> NoneList]

\* data of chat(): None (present false) unless there are rows
ChatResponseData(result) ==
    LET query_results == Get(result, "query_results", NoneList)
        sql_attempts == Get(result, "sql_attempts", <<>>)
    IN  IF Truthy(query_results)
        THEN [present |-> TRUE,
              results |-> SubSeq(query_results, 1, Min(Len(query_results), 100)),
              count |-> Len(query_results),
              sql |-> Get(result, "sql_query", NoneList),
              sql_attempts |-> IF Len(sql_attempts) > 1 THEN sql_attempts ELSE NoneList]
        ELSE [present |-> FALSE, results |-> NoneList, count |-> 0,
              sql |-> NoneList, sql_attempts |-> NoneList]

(***************************************************************************)
(* The initial state dict, as the two entry points build it.               *)
(***************************************************************************)
\* chat() of api/routes/chat.py: every field is given a default
HttpState(bound) ==
    [user_query |-> "q",
     file_id |-> IF bound THEN "f1" ELSE None,
     conversation_id |-> "c1",
     file_metadata |-> IF bound THEN "meta" ELSE None,
     table_name |-> IF bound THEN "table_f1" ELSE None,
     query_type |-> None,
     entities |-> "{}",
     intent |-> None,
     sql_query |-> NoneList,
     sql_valid |-> FALSE,
     sql_attempts |-> <<>>,
     query_results |-> NoneList,
     result_count |-> 0,
     validation_passed |-> FALSE,
     validation_errors |-> <<>>,
     retry_count |-> 0,
     insights |-> NoneList,
     visualizations |-> NoneList,
     errors |-> <<>>]

\* handle_chat_message() of api/websockets/chat_ws.py: the optional fields
\* are left out
WsState(bound) ==
    [user_query |-> "q",
     file_id |-> IF bound THEN "f1" ELSE None,
     conversation_id |-> "c1",
     file_metadata |-> IF bound THEN "meta" ELSE None,
     table_name |-> IF bound THEN "table_f1" ELSE None]

\* the services at rest: an empty cache, no WebSocket session
ServicesIdle ==
    /\ cache = <<>>
    /\ enabled = TRUE
    /\ ttl = 1
    /\ now = 0
    /\ lastSet = <<>>
    /\ got = <<>>
    /\ active_connections = {}
    /\ sessions = <<>>
    /\ sent = <<>>

Init ==
    /\ \E bound \in BOOLEAN : state \in {HttpState(bound), WsState(bound)}
    /\ use_duckdb \in BOOLEAN
    /\ pc = "start"
    /\ trace = <<>>
    /\ verdicts = <<>>
    /\ routeBacks = 0
    /\ produced = <<>>
    /\ calls = <<>>
    /\ context = <<>>
    /\ requests = <<>>
    /\ heap = <<>>
    /\ executed = <<>>
    /\ ServicesIdle

(***************************************************************************)
(* The steps of the workflow.                                              *)
(***************************************************************************)
\* run_agent_workflow: the graph is entered at query_understanding
RunAgentWorkflow ==
    /\ pc = "start"
    /\ pc' = "query_understanding"
    /\ UNCHANGED <<concurrent, services, executed, state, use_duckdb, trace, verdicts, routeBacks, produced, calls, context>>

\* one external call and its result
Call(svc, result) == [svc |-> svc, result |-> result]

ClassifierOutcomes ==
    {[kind |-> "raise", query_type |-> None], [kind |-> "garbled", query_type |-> None]}
    \cup {[kind |-> "ok", query_type |-> t] :
            t \in {"qa", "summarization", "dashboard", "report"}}

\* the classifier is called on every run; its result is the category it
\* answered, or how it failed
ClassifierCalls(o) ==
    << Call("classifier", IF o.kind = "ok" THEN o.query_type ELSE o.kind) >>

QueryUnderstanding ==
    /\ pc = "query_understanding"
    /\ Len(trace) < MaxSteps
    /\ \E o \in ClassifierOutcomes :
          /\ state' = Merge(state, QueryUnderstandingUpdate(state, o))
          /\ calls' = calls \o ClassifierCalls(o)
    /\ pc' = should_generate_sql(state')
    /\ trace' = Append(trace, "query_understanding")
    /\ UNCHANGED <<concurrent, services, executed, use_duckdb, verdicts, routeBacks, produced, context>>

SynthesizerOutcomes ==
    {[kind |-> "raise", raw |-> <<>>, accepts |-> FALSE]}
    \cup {[kind |-> "ok", raw |-> r, accepts |-> a] : r \in RawOutputs, a \in BOOLEAN}

\* whether the run invokes the synthesizer and gets an answer
SynthesizerAnswers(s, o) ==
    /\ TruthyStr(Get(s, "file_metadata", None))
    /\ TruthyStr(Get(s, "table_name", None))
    /\ o.kind = "ok"

\* the synthesizer called through LLMService.generate_with_retry: a failed
\* call is issued again, up to three calls in all
SynthesisCalls_Reissues(s, o) ==
    IF ~TruthyStr(Get(s, "file_metadata", None)) \/ ~TruthyStr(Get(s, "table_name", None))
    THEN <<>>
    ELSE IF o.kind = "raise"
    THEN << Call("synthesizer", "raise"), Call("synthesizer", "raise"),
            Call("synthesizer", "raise") >>
    ELSE << Call("synthesizer", "ok"),
            Call("validator", IF ValidateSql(CleanSql(o.raw), o.accepts)
                              THEN "accept" ELSE "reject") >>

\* the synthesizer is called when a dataset is bound, the query validator
\* when the synthesizer answered
SynthesisCalls(s, o) ==
    IF ~TruthyStr(Get(s, "file_metadata", None)) \/ ~TruthyStr(Get(s, "table_name", None))
    THEN <<>>
    ELSE IF o.kind = "raise" THEN << Call("synthesizer", "raise") >>
    ELSE << Call("synthesizer", "ok"),
            Call("validator", IF ValidateSql(CleanSql(o.raw), o.accepts)
                              THEN "accept" ELSE "reject") >>

SqlGeneration ==
    /\ pc = "sql_generation"
    /\ Len(trace) < MaxSteps
    /\ \E o \in SynthesizerOutcomes :
          /\ state' = Merge(state, SqlGenerationUpdate(state, o))
          /\ produced' = IF SynthesizerAnswers(state, o)
                         THEN Append(produced, CleanSql(o.raw)) ELSE produced
          /\ calls' = calls \o SynthesisCalls(state, o)
          /\ context' = IF SynthesisCalls(state, o) # <<>>
                        THEN Append(context, RetryContext(state)) ELSE context
    /\ pc' = "data_retrieval"
    /\ trace' = Append(trace, "sql_generation")
    /\ UNCHANGED <<concurrent, services, executed, use_duckdb, verdicts, routeBacks>>

EngineOutcomes ==
    {[kind |-> "raise", rows |-> <<>>]} \cup {[kind |-> "ok", rows |-> r] : r \in ResultSets}

\* the engine is called when there is a query text and it is valid
ExecutionCalls(s, o) ==
    IF ~Truthy(Get(s, "sql_query", NoneList)) \/ ~Get(s, "sql_valid", FALSE)
    THEN <<>>
    ELSE << Call("engine", o.kind) >>

\* the query text the engine is given: the sql_query of the state
ExecutedTexts(s, o) ==
    IF ExecutionCalls(s, o) = <<>> THEN <<>> ELSE << s["sql_query"] >>

DataRetrieval ==
    /\ pc = "data_retrieval"
    /\ Len(trace) < MaxSteps
    /\ \E o \in EngineOutcomes :
          /\ state' = Merge(state, DataRetrievalUpdate(state, o))
          /\ calls' = calls \o ExecutionCalls(state, o)
          /\ executed' = executed \o ExecutedTexts(state, o)
    /\ pc' = "validation"
    /\ trace' = Append(trace, "data_retrieval")
    /\ UNCHANGED <<concurrent, services, use_duckdb, verdicts, routeBacks, produced, context>>

CheckerOutcomes ==
    {[kind |-> "raise", valid |-> TRUE, issues |-> <<>>],
     [kind |-> "garbled", valid |-> TRUE, issues |-> <<>>],
     [kind |-> "ok", valid |-> TRUE, issues |-> <<>>],
     [kind |-> "ok", valid |-> FALSE, issues |-> <<"issue">>]}

\* the verdict of one validation run
Verdict(o) ==
    IF o.kind = "raise" THEN "error"
    ELSE IF o.kind = "ok" /\ ~o.valid THEN "invalid"
    ELSE "valid"

Validation ==
    /\ pc = "validation"
    /\ Len(trace) < MaxSteps
    /\ \E o \in CheckerOutcomes :
          /\ state' = Merge(state, ValidationUpdate(state, o))
          /\ verdicts' = Append(verdicts, Verdict(o))
          /\ calls' = Append(calls, Call("checker", o.kind))
    /\ pc' = should_retry_sql(state')
    /\ routeBacks' = IF pc' = "sql_generation" THEN routeBacks + 1 ELSE routeBacks
    /\ trace' = Append(trace, "validation")
    /\ UNCHANGED <<concurrent, services, executed, use_duckdb, produced, context>>

NarratorOutcomes ==
    {[kind |-> "raise", text |-> <<>>]} \cup {[kind |-> "ok", text |-> t] : t \in NarratorTexts}

InsightGeneration ==
    /\ pc = "insight_generation"
    /\ Len(trace) < MaxSteps
    /\ \E o \in NarratorOutcomes :
          /\ state' = Merge(state, InsightGenerationUpdate(state, o))
          /\ calls' = Append(calls, Call("narrator", o.kind))
    /\ pc' = "Done"
    /\ trace' = Append(trace, "insight_generation")
    /\ UNCHANGED <<concurrent, services, executed, use_duckdb, verdicts, routeBacks, produced, context>>

Next ==
    \/ RunAgentWorkflow
    \/ QueryUnderstanding
    \/ SqlGeneration
    \/ DataRetrieval
    \/ Validation
    \/ InsightGeneration

Spec == Init /\ [][Next]_vars

\* the graph runner runs the next node as long as there is one
FairSpec == Spec /\ WF_vars(Next)

(***************************************************************************)
(* Cancellation of the task that runs the workflow.  asyncio raises        *)
(* CancelledError at the await the task is suspended on; it is not an      *)
(* Exception, so no agent's handler and no handler of run_agent_workflow   *)
(* catches it, and it leaves the workflow without a result.                *)
(***************************************************************************)
Nodes ==
    {"query_understanding", "sql_generation", "data_retrieval", "validation",
     "insight_generation"}

\* the external call a node is suspended on while it runs, None if it
\* awaits none
AwaitedService(s, node) ==
    CASE node = "query_understanding" -> "classifier"
      [] node = "sql_generation" ->
            IF ~TruthyStr(Get(s, "file_metadata", None))
               \/ ~TruthyStr(Get(s, "table_name", None))
            THEN None ELSE "synthesizer"
      [] node = "validation" -> "checker"
      [] node = "insight_generation" -> "narrator"
      [] OTHER -> None

\* the task is cancelled while the graph is between two nodes (midStage
\* false) or while the node is suspended on its external call
Cancel ==
    /\ pc \in Nodes
    /\ \E midStage \in BOOLEAN :
          /\ midStage => AwaitedService(state, pc) # None
          /\ calls' = IF midStage
                      THEN Append(calls, Call(AwaitedService(state, pc), "cancelled"))
                      ELSE calls
    /\ pc' = "Cancelled"
    /\ UNCHANGED <<concurrent, services, executed, state, use_duckdb, trace, verdicts, routeBacks, produced, context>>

CancelNext == Next \/ Cancel

CancelSpec == Init /\ [][CancelNext]_vars

(***************************************************************************)
(* Several requests at once.  Each call of chat() builds its own state     *)
(* dict and awaits run_agent_workflow on it; the event loop switches       *)
(* between requests when a node awaits its external call, so node runs of  *)
(* different requests interleave.  The one mutable object a state dict     *)
(* refers to is the sql_attempts list, which sql_generation_agent appends  *)
(* to in place: the dict holds a reference into the heap.                  *)
(***************************************************************************)
Requests == {1, 2}

\* every request's list literal is the same object
NewList_Shared(r) == 1

\* the list object a request's [] literal creates: a fresh one per request
NewList(r) == r

\* the update a node returns
NodeUpdate(s, node, o) ==
    CASE node = "query_understanding" -> QueryUnderstandingUpdate(s, o)
      [] node = "sql_generation" -> SqlGenerationUpdate(s, o)
      [] node = "data_retrieval" -> DataRetrievalUpdate(s, o)
      [] node = "validation" -> ValidationUpdate(s, o)
      [] node = "insight_generation" -> InsightGenerationUpdate(s, o)

\* the edge the graph follows out of a node, given the merged state
Route(s, node) ==
    CASE node = "query_understanding" -> should_generate_sql(s)
      [] node = "sql_generation" -> "data_retrieval"
      [] node = "data_retrieval" -> "validation"
      [] node = "validation" -> should_retry_sql(s)
      [] node = "insight_generation" -> "Done"

\* the outcomes of the external calls of a node when several requests run
NoOutcome ==
    [kind |-> "ok", query_type |-> "qa", raw |-> <<>>, accepts |-> FALSE,
     rows |-> <<>>, valid |-> TRUE, issues |-> <<>>, text |-> <<>>]

ConcurrentOutcomes(node) ==
    CASE node = "query_understanding" ->
            {[NoOutcome EXCEPT !.query_type = c] : c \in {"qa", "summarization"}}
      [] node = "sql_generation" ->
            {[NoOutcome EXCEPT !.raw = <<"SELECT">>, !.accepts = TRUE],
             [NoOutcome EXCEPT !.raw = <<"gibberish">>]}
      [] node = "data_retrieval" ->
            {[NoOutcome EXCEPT !.rows = <<"row">>], [NoOutcome EXCEPT !.kind = "raise"]}
      [] node = "validation" ->
            {NoOutcome, [NoOutcome EXCEPT !.valid = FALSE, !.issues = <<"issue">>]}
      [] node = "insight_generation" ->
            {[NoOutcome EXCEPT !.text = <<"text">>], [NoOutcome EXCEPT !.kind = "raise"]}

\* the state dict an entry point builds, with plain list values
EntryState(entry) == IF entry = "http" THEN HttpState(TRUE) ELSE WsState(TRUE)

\* the state dict with the reference to its list replaced by the list
View(s) ==
    IF "sql_attempts" \in DOMAIN s
    THEN [s EXCEPT !["sql_attempts"] = heap[s["sql_attempts"]]]
    ELSE s

ConcurrentInit ==
    /\ state = HttpState(TRUE)
    /\ use_duckdb \in BOOLEAN
    /\ pc = "start"
    /\ trace = <<>>
    /\ verdicts = <<>>
    /\ routeBacks = 0
    /\ produced = <<>>
    /\ calls = <<>>
    /\ context = <<>>
    /\ executed = <<>>
    /\ ServicesIdle
    /\ heap = [i \in {NewList(r) : r \in Requests} |-> <<>>]
    /\ \E entries \in [Requests -> {"http", "ws"}] :
          requests =
              [r \in Requests |->
                  [entry |-> entries[r],
                   state |-> IF entries[r] = "http"
                             THEN [HttpState(TRUE) EXCEPT !["sql_attempts"] = NewList(r)]
                             ELSE WsState(TRUE),
                   pc |-> "query_understanding",
                   script |-> <<>>]]

\* one node run of request r
NodeRun(r) ==
    /\ requests[r].pc \in Nodes
    /\ \E o \in ConcurrentOutcomes(requests[r].pc) :
          LET q == requests[r]
              u == NodeUpdate(View(q.state), q.pc, o)
              writes == "sql_attempts" \in DOMAIN u
              id == IF "sql_attempts" \in DOMAIN q.state
                    THEN q.state["sql_attempts"] ELSE NewList(r)
              merged == Merge(q.state, IF writes THEN [u EXCEPT !["sql_attempts"] = id]
                                       ELSE u)
          IN  /\ heap' = IF writes THEN [heap EXCEPT ![id] = u["sql_attempts"]] ELSE heap
              /\ requests' = [requests EXCEPT
                                 ![r] = [q EXCEPT !.state = merged,
                                                  !.pc = Route(merged, q.pc),
                                                  !.script = Append(q.script, o)]]
    /\ UNCHANGED <<workflow, services>>

ConcurrentNext == \E r \in Requests : NodeRun(r)

ConcurrentSpec == ConcurrentInit /\ [][ConcurrentNext]_vars

\* a request run alone from query_understanding with the given outcomes
RECURSIVE RunAlone(_, _, _)
RunAlone(s, node, script) ==
    IF script = <<>> THEN [state |-> s, pc |-> node]
    ELSE LET merged == Merge(s, NodeUpdate(s, node, Head(script)))
         IN  RunAlone(merged, Route(merged, node), Tail(script))

(***************************************************************************)
(* The two entry points side by side.  chat() gives every key of the state *)
(* a default, handle_chat_message() builds the state from the request      *)
(* fields alone; both hand it to run_agent_workflow.  The two runs are fed  *)
(* the same outcome of the external calls at every node.                   *)
(***************************************************************************)
Entries == {"http", "ws"}

\* all outcomes of the external calls of a node
NodeOutcomes(node) ==
    CASE node = "query_understanding" -> ClassifierOutcomes
      [] node = "sql_generation" -> SynthesizerOutcomes
      [] node = "data_retrieval" -> EngineOutcomes
      [] node = "validation" -> CheckerOutcomes
      [] node = "insight_generation" -> NarratorOutcomes

EntryInit ==
    /\ state = HttpState(TRUE)
    /\ use_duckdb \in BOOLEAN
    /\ pc = "start"
    /\ trace = <<>>
    /\ verdicts = <<>>
    /\ routeBacks = 0
    /\ produced = <<>>
    /\ calls = <<>>
    /\ context = <<>>
    /\ executed = <<>>
    /\ ServicesIdle
    /\ heap = <<>>
    /\ \E bound \in BOOLEAN :
          requests =
              [e \in Entries |->
                  [state |-> IF e = "http" THEN HttpState(bound) ELSE WsState(bound),
                   pc |-> "query_understanding",
                   stages |-> <<>>]]

\* the runs that stand at the node run it, with the same outcome
EntryStep ==
    /\ \E node \in Nodes :
          /\ \E e \in Entries : requests[e].pc = node
          /\ \E o \in NodeOutcomes(node) :
                requests' =
                    [e \in Entries |->
                        LET q == requests[e]
                            merged == Merge(q.state, NodeUpdate(q.state, node, o))
                        IN  IF q.pc = node
                            THEN [state |-> merged,
                                  pc |-> Route(merged, node),
                                  stages |-> Append(q.stages, node)]
                            ELSE q]
    /\ UNCHANGED <<workflow, services, heap>>

EntrySpec == EntryInit /\ [][EntryStep]_vars

(***************************************************************************)
(* The cache service of services/cache_service.py: a dict from key to the  *)
(* pair of a value and its expiry time, read against the clock             *)
(* time.time().  An optional value (the ttl argument of set, the result    *)
(* of get, the entry found under a key) is the empty sequence for None and *)
(* a one-element sequence otherwise.                                       *)
(***************************************************************************)
\* the latest time the clock reaches
MaxClock == 4
\* the longest time to live, of the service and of a set call
MaxTtl == 2

Keys == {"k1", "k2"}
Values == {"v1", "v2"}

\* the ttl arguments of set: None or a number
TtlArgs == {<<>>} \cup {<<n>> : n \in 0..MaxTtl}

\* an expiry test that never finds an entry expired
Expired_Never(entry, t) == FALSE

\* the expiry test of get and cleanup_expired
Expired(entry, t) == t > entry.expiry

\* ttl = ttl or self.ttl
SetTtl(arg) == IF arg = <<>> \/ arg[1] = 0 THEN ttl ELSE arg[1]

\* del self._cache[key]
Remove(c, k) == [j \in DOMAIN c \ {k} |-> c[j]]

\* self._cache[key] = entry
Store(c, k, entry) == [j \in DOMAIN c \cup {k} |-> IF j = k THEN entry ELSE c[j]]

CacheInit ==
    /\ state = HttpState(TRUE)
    /\ use_duckdb = TRUE
    /\ pc = "start"
    /\ trace = <<>>
    /\ verdicts = <<>>
    /\ routeBacks = 0
    /\ produced = <<>>
    /\ calls = <<>>
    /\ context = <<>>
    /\ executed = <<>>
    /\ requests = <<>>
    /\ heap = <<>>
    /\ active_connections = {}
    /\ sessions = <<>>
    /\ sent = <<>>
    /\ cache = <<>>
    /\ enabled \in BOOLEAN
    /\ ttl \in 1..MaxTtl
    /\ now = 0
    /\ lastSet = [k \in Keys |-> <<>>]
    /\ got = <<>>

\* CacheService.get
CacheGet(k) ==
    LET found == IF enabled /\ k \in DOMAIN cache THEN <<cache[k]>> ELSE <<>>
        expired == found # <<>> /\ Expired(found[1], now)
        result == IF found = <<>> \/ expired THEN <<>> ELSE <<found[1].value>>
    IN  /\ cache' = IF expired THEN Remove(cache, k) ELSE cache
        /\ got' = <<[key |-> k, found |-> found, result |-> result]>>
        /\ UNCHANGED <<enabled, ttl, now, lastSet, workflow, concurrent, wsVars>>

\* CacheService.set
CacheSet(k, v, arg) ==
    /\ cache' = IF enabled
                THEN Store(cache, k, [value |-> v, expiry |-> now + SetTtl(arg)])
                ELSE cache
    /\ lastSet' = [lastSet EXCEPT ![k] = <<[at |-> now, arg |-> arg, value |-> v]>>]
    /\ got' = <<>>
    /\ UNCHANGED <<enabled, ttl, now, workflow, concurrent, wsVars>>

\* CacheService.delete
CacheDelete(k) ==
    /\ cache' = IF k \in DOMAIN cache THEN Remove(cache, k) ELSE cache
    /\ lastSet' = [lastSet EXCEPT ![k] = <<>>]
    /\ got' = <<>>
    /\ UNCHANGED <<enabled, ttl, now, workflow, concurrent, wsVars>>

\* CacheService.clear
CacheClear ==
    /\ cache' = <<>>
    /\ lastSet' = [k \in Keys |-> <<>>]
    /\ got' = <<>>
    /\ UNCHANGED <<enabled, ttl, now, workflow, concurrent, wsVars>>

\* CacheService.cleanup_expired
CleanupExpired ==
    /\ cache' = [j \in {k \in DOMAIN cache : ~Expired(cache[k], now)} |-> cache[j]]
    /\ got' = <<>>
    /\ UNCHANGED <<enabled, ttl, now, lastSet, workflow, concurrent, wsVars>>

\* the clock advances
Tick ==
    /\ now < MaxClock
    /\ now' = now + 1
    /\ got' = <<>>
    /\ UNCHANGED <<cache, enabled, ttl, lastSet, workflow, concurrent, wsVars>>

CacheNext ==
    \/ \E k \in Keys : CacheGet(k)
    \/ \E k \in Keys, v \in Values, arg \in TtlArgs : CacheSet(k, v, arg)
    \/ \E k \in Keys : CacheDelete(k)
    \/ CacheClear
    \/ CleanupExpired
    \/ Tick

CacheSpec == CacheInit /\ [][CacheNext]_vars

(***************************************************************************)
(* The WebSocket endpoint of api/websockets/chat_ws.py.  Every call of     *)
(* handle_websocket draws its own client id (uuid4) and runs as a task of  *)
(* the event loop; the tasks interleave at their awaits.  A session is     *)
(* identified with its client id.  The registry active_connections maps    *)
(* the client id to its socket; the model keeps its set of keys.           *)
(***************************************************************************)
Clients == {"c1", "c2"}

\* where a session stands, and what ended it
At(position) == [pc |-> position, ended_by |-> "none"]
Ended(cause) == [pc |-> "ended", ended_by |-> cause]

\* a disconnect that leaves the registry as it is
disconnect_Keeps(registry, client_id) == registry

\* ConnectionManager.disconnect
disconnect(registry, client_id) == registry \ {client_id}

\* ConnectionManager.send_message: whether websocket.send_json is called
Sends(client_id) == client_id \in active_connections

\* the messages a client has been sent after send_message(client_id, kind);
\* ok is whether send_json succeeds
send_message(client_id, kind, ok) ==
    IF Sends(client_id) /\ ok
    THEN [sent EXCEPT ![client_id] = @ \cup {kind}]
    ELSE sent

\* send_message raises what send_json raises
SendRaises(client_id, ok) == Sends(client_id) /\ ~ok

WsInit ==
    /\ state = HttpState(TRUE)
    /\ use_duckdb = TRUE
    /\ pc = "start"
    /\ trace = <<>>
    /\ verdicts = <<>>
    /\ routeBacks = 0
    /\ produced = <<>>
    /\ calls = <<>>
    /\ context = <<>>
    /\ executed = <<>>
    /\ requests = <<>>
    /\ heap = <<>>
    /\ cache = <<>>
    /\ enabled = TRUE
    /\ ttl = 1
    /\ now = 0
    /\ lastSet = <<>>
    /\ got = <<>>
    /\ active_connections = {}
    /\ sessions = [c \in Clients |-> At("connect")]
    /\ sent = [c \in Clients |-> {}]

\* handle_websocket leaves through one of its two handlers, which both call
\* manager.disconnect
Leave(c, cause) ==
    /\ active_connections' = disconnect(active_connections, c)
    /\ sessions' = [sessions EXCEPT ![c] = Ended(cause)]

\* manager.connect: websocket.accept(), then the registration
WsConnect(c) ==
    /\ sessions[c].pc = "connect"
    /\ \E ok \in BOOLEAN :
          IF ok
          THEN /\ active_connections' = active_connections \cup {c}
               /\ sessions' = [sessions EXCEPT ![c] = At("confirm")]
          ELSE Leave(c, "accept_failed")
    /\ UNCHANGED <<sent, workflow, concurrent, cacheVars>>

\* the connection confirmation
WsConfirm(c) ==
    /\ sessions[c].pc = "confirm"
    /\ \E ok \in BOOLEAN :
          /\ sent' = send_message(c, "connection", ok)
          /\ IF SendRaises(c, ok)
             THEN Leave(c, "send_failed")
             ELSE /\ sessions' = [sessions EXCEPT ![c] = At("receive")]
                  /\ UNCHANGED active_connections
    /\ UNCHANGED <<workflow, concurrent, cacheVars>>

\* websocket.receive_text() and json.loads: the peer has gone, or the text
\* is no JSON object, or it is a message of some type
WsReceive(c) ==
    /\ sessions[c].pc = "receive"
    /\ \E event \in {"disconnect", "garbage", "chat", "ping", "other"} :
          CASE event = "disconnect" -> Leave(c, "client_disconnect")
            [] event = "garbage" -> Leave(c, "bad_message")
            [] event = "chat" ->
                  /\ sessions' = [sessions EXCEPT ![c] = At("chat_ack")]
                  /\ UNCHANGED active_connections
            [] event = "ping" ->
                  /\ sessions' = [sessions EXCEPT ![c] = At("pong")]
                  /\ UNCHANGED active_connections
            [] OTHER -> UNCHANGED <<sessions, active_connections>>
    /\ UNCHANGED <<sent, workflow, concurrent, cacheVars>>

\* the answer to a ping
WsPong(c) ==
    /\ sessions[c].pc = "pong"
    /\ \E ok \in BOOLEAN :
          /\ sent' = send_message(c, "pong", ok)
          /\ IF SendRaises(c, ok)
             THEN Leave(c, "send_failed")
             ELSE /\ sessions' = [sessions EXCEPT ![c] = At("receive")]
                  /\ UNCHANGED active_connections
    /\ UNCHANGED <<workflow, concurrent, cacheVars>>

\* handle_chat_message: the acknowledgment
ChatAck(c) ==
    /\ sessions[c].pc = "chat_ack"
    /\ \E ok \in BOOLEAN :
          /\ sent' = send_message(c, "status", ok)
          /\ sessions' = [sessions EXCEPT
                             ![c] = At(IF SendRaises(c, ok) THEN "chat_error"
                                       ELSE "chat_work")]
    /\ UNCHANGED <<active_connections, workflow, concurrent, cacheVars>>

\* handle_chat_message: the metadata lookup and the workflow
ChatWork(c) ==
    /\ sessions[c].pc = "chat_work"
    /\ \E ok \in BOOLEAN :
          sessions' = [sessions EXCEPT
                          ![c] = At(IF ok THEN "chat_respond" ELSE "chat_error")]
    /\ UNCHANGED <<active_connections, sent, workflow, concurrent, cacheVars>>

\* handle_chat_message: the response
ChatRespond(c) ==
    /\ sessions[c].pc = "chat_respond"
    /\ \E ok \in BOOLEAN :
          /\ sent' = send_message(c, "response", ok)
          /\ sessions' = [sessions EXCEPT
                             ![c] = At(IF SendRaises(c, ok) THEN "chat_error"
                                       ELSE "receive")]
    /\ UNCHANGED <<active_connections, workflow, concurrent, cacheVars>>

\* handle_chat_message: the error reply of its handler; a failure of it
\* leaves handle_chat_message and reaches the handler of handle_websocket
ChatError(c) ==
    /\ sessions[c].pc = "chat_error"
    /\ \E ok \in BOOLEAN :
          /\ sent' = send_message(c, "error", ok)
          /\ IF SendRaises(c, ok)
             THEN Leave(c, "error_reply_failed")
             ELSE /\ sessions' = [sessions EXCEPT ![c] = At("receive")]
                  /\ UNCHANGED active_connections
    /\ UNCHANGED <<workflow, concurrent, cacheVars>>

\* a call of manager.send_message from outside the session of the client
Notify(c) ==
    /\ \E ok \in BOOLEAN : sent' = send_message(c, "notice", ok)
    /\ UNCHANGED <<active_connections, sessions, workflow, concurrent, cacheVars>>

WsNext ==
    \/ \E c \in Clients : WsConnect(c)
    \/ \E c \in Clients : WsConfirm(c)
    \/ \E c \in Clients : WsReceive(c)
    \/ \E c \in Clients : WsPong(c)
    \/ \E c \in Clients : ChatAck(c)
    \/ \E c \in Clients : ChatWork(c)
    \/ \E c \in Clients : ChatRespond(c)
    \/ \E c \in Clients : ChatError(c)
    \/ \E c \in Clients : Notify(c)

WsSpec == WsInit /\ [][WsNext]_vars

(***************************************************************************)
(* Properties.                                                             *)
(***************************************************************************)
Count(seq, x) == Cardinality({i \in 1..Len(seq) : seq[i] = x})
Last(seq) == seq[Len(seq)]

SynthesisRuns == Count(trace, "sql_generation")
RetryCount == Get(state, "retry_count", 0)
ValidationPassed == Get(state, "validation_passed", FALSE)
Category == Get(state, "query_type", None)
History == Get(state, "sql_attempts", <<>>)
Errors == Get(state, "errors", <<>>)

\* C1: in every reachable state of a request started with retry_count 0 (or
\* without the key), retry_count is at most 2, whatever the external calls
\* answer.
C1_RetryCountAtMostTwo == RetryCount \in 0..2

C1_Witness == RetryCount = 2 /\ pc = "Done"

\* C2: every request reaches Done, whatever the external calls answer and
\* also when every one of them fails; no node run leaves the workflow
\* anywhere else.
C2_EventuallyDone == <>(pc = "Done")

C2_Witness ==
    /\ pc = "Done"
    /\ verdicts = <<"error">>
    /\ Errors = <<"Query understanding error", "SQL generation error",
                  "No valid SQL query to execute", "Insight generation error">>

\* C3 (as claimed): when every validation run of a request reports the
\* result invalid, insight generation starts after exactly 3 runs of SQL
\* generation and with validation_passed true.
C3_ThreeAttemptsThenAccepted ==
    (/\ pc = "insight_generation"
     /\ verdicts # <<>>
     /\ \A i \in 1..Len(verdicts) : verdicts[i] = "invalid")
    => (SynthesisRuns = 3 /\ ValidationPassed = TRUE)

\* C4 (as claimed): on the qa/dashboard path insight generation is entered
\* only with validation_passed true, so no terminal state of such a request
\* has validation_passed false.
C4_NarrativeOnlyAfterPass ==
    (pc \in {"insight_generation", "Done"} /\ Category \in {"qa", "dashboard"})
    => ValidationPassed = TRUE

\* C5 (as claimed): a validation run that starts with retry_count < 2 and
\* whose checker reports invalid sets validation_passed false, raises
\* retry_count by 1 and routes to SQL generation, for retry_count 0 and 1.
C5_FailedCheckRoutesBack ==
    [][(/\ pc = "validation"
        /\ pc' # "validation"
        /\ RetryCount < 2
        /\ Last(verdicts') = "invalid")
       => (/\ Get(state', "validation_passed", TRUE) = FALSE
           /\ Get(state', "retry_count", 0) = RetryCount + 1
           /\ pc' = "sql_generation")]_vars

\* C6 (as claimed): in every reachable state retry_count equals the number
\* of times validation has routed back to SQL generation.
C6_RetryCountIsRouteBacks == RetryCount = routeBacks

\* C7: within one request SQL generation runs at most 3 times and
\* validation routes back to SQL generation at most 2 times.
C7_AtMostThreeSyntheses == SynthesisRuns <= 3 /\ routeBacks <= 2

C7_Witness == pc = "Done" /\ SynthesisRuns = 2 /\ routeBacks = 1

\* C8: the nodes run in the order query_understanding, then repetitions of
\* (sql_generation, data_retrieval, validation), then insight_generation,
\* then Done; query_understanding and insight_generation run once;
\* query_understanding routes to sql_generation for qa and dashboard and to
\* insight_generation for summarization.
C8_StageOrder ==
    /\ \A i \in 1..Len(trace) :
          /\ (i = 1) <=> (trace[i] = "query_understanding")
          /\ trace[i] = "sql_generation" =>
                (i > 1 /\ trace[i - 1] \in {"query_understanding", "validation"})
          /\ trace[i] = "data_retrieval" =>
                (i > 1 /\ trace[i - 1] = "sql_generation")
          /\ trace[i] = "validation" =>
                (i > 1 /\ trace[i - 1] = "data_retrieval")
          /\ trace[i] = "insight_generation" =>
                /\ i > 1
                /\ trace[i - 1] \in {"query_understanding", "validation"}
                /\ i = Len(trace)
    /\ pc \in {"start", "query_understanding"} <=> trace = <<>>
    /\ pc = "data_retrieval" <=> (trace # <<>> /\ Last(trace) = "sql_generation")
    /\ pc = "validation" <=> (trace # <<>> /\ Last(trace) = "data_retrieval")
    /\ pc = "Done" <=> (trace # <<>> /\ Last(trace) = "insight_generation")
    /\ Len(trace) = 1 =>
          /\ Category \in {"qa", "dashboard"} => pc = "sql_generation"
          /\ Category = "summarization" => pc = "insight_generation"
          /\ Category \in {"qa", "dashboard", "summarization"}

C8_Witness ==
    /\ pc = "Done"
    /\ trace = <<"query_understanding",
                 "sql_generation", "data_retrieval", "validation",
                 "sql_generation", "data_retrieval", "validation",
                 "insight_generation">>

\* C9: when the category is summarization, SQL generation, data retrieval
\* and validation never run: query_results is never assigned, result_count
\* is 0, sql_attempts is empty and retry_count is 0, up to and at Done.
C9_SummarizationSkipsSql ==
    Category = "summarization" =>
        /\ \A i \in 1..Len(trace) :
              trace[i] \notin {"sql_generation", "data_retrieval", "validation"}
        /\ Get(state, "query_results", NoneList) = NoneList
        /\ Get(state, "result_count", 0) = 0
        /\ History = <<>>
        /\ RetryCount = 0

C9_Witness == pc = "Done" /\ Category = "summarization"

\* C10 (as claimed): the length of sql_attempts equals the number of SQL
\* generation runs completed so far, the runs that short-circuit without a
\* dataset and the runs whose synthesizer call fails included.
C10_HistoryLenIsSynthesisRuns == Len(History) = SynthesisRuns

\* C10 (amended): sql_attempts holds, oldest first, the cleaned text of
\* every SQL generation run whose synthesizer call returned a text; a run
\* that short-circuits without a dataset or whose synthesizer call fails
\* adds no entry.
C10_HistoryIsProducedTexts == History = produced

C10_Witness == pc = "Done" /\ SynthesisRuns = 2 /\ Len(History) = 1

IsPrefix(a, b) == Len(a) <= Len(b) /\ SubSeq(b, 1, Len(a)) = a

Insights == Get(state, "insights", NoneList)
SqlQuery == Get(state, "sql_query", NoneList)
SqlValid == Get(state, "sql_valid", FALSE)
QueryResults == Get(state, "query_results", NoneList)
ResultCount == Get(state, "result_count", 0)
Unbound ==
    ~TruthyStr(Get(state, "file_metadata", None)) \/ ~TruthyStr(Get(state, "table_name", None))

\* C11: sql_attempts is append-only: every step leaves the old value as a
\* prefix of the new one, only SQL generation changes it, and a text the
\* synthesizer answers is appended even when the list already holds it.
C11_HistoryAppendOnly ==
    [][/\ IsPrefix(History, Get(state', "sql_attempts", <<>>))
       /\ pc # "sql_generation" => Get(state', "sql_attempts", <<>>) = History
       /\ produced' # produced =>
             Get(state', "sql_attempts", <<>>) = Append(History, Last(produced'))]_vars

C11_Witness == pc = "Done" /\ Len(History) = 2 /\ History[1] = History[2]

\* C12: errors is append-only: every step of every node, retries included,
\* leaves the old value as a prefix of the new one.
C12_ErrorsAppendOnly == [][IsPrefix(Errors, Get(state', "errors", <<>>))]_vars

C12_Witness ==
    /\ pc = "Done"
    /\ Errors = <<"Invalid SQL", "No valid SQL query to execute",
                  "SQL generation error", "No valid SQL query to execute",
                  "Insight generation error">>

\* C13: in every terminal state insights is a text that is neither None nor
\* empty nor whitespace only, whatever the narrator did and on the
\* summarization path too.
C13_FinalMessageNonEmpty ==
    pc = "Done" => (Truthy(Insights) /\ Strip(Insights) # <<>>)

C13_Witness ==
    /\ pc = "Done"
    /\ Category = "summarization"
    /\ Last(calls) = Call("narrator", "ok")
    /\ QueryResults = NoneList
    /\ Insights = <<"No data found matching your query">>

\* C14: once query understanding has run, query_type is qa, summarization
\* or dashboard: the category the classifier answered when it is one of
\* the three, qa when it is another value or the classifier failed.
C14_CategoryInClosedSet ==
    trace # <<>> =>
        /\ Category \in {"qa", "summarization", "dashboard"}
        /\ calls[1].svc = "classifier"
        /\ Category = IF calls[1].result \in {"qa", "summarization", "dashboard"}
                      THEN calls[1].result ELSE "qa"

C14_Witness == pc = "Done" /\ calls[1] = Call("classifier", "report") /\ Category = "qa"

\* C15: query_type is written by query understanding and by no other node:
\* SQL generation, data retrieval, validation and insight generation leave
\* it as it was, on their failure paths and on retries too.
C15_CategoryWrittenOnce ==
    [][/\ (pc = "query_understanding" /\ pc' # pc) =>
             ("query_type" \in DOMAIN state' /\ Get(state', "query_type", None) # None)
       /\ pc # "query_understanding" => Get(state', "query_type", None) = Category]_vars

C15_Witness ==
    /\ pc = "Done"
    /\ Category = "dashboard"
    /\ SynthesisRuns = 2
    /\ Last(calls) = Call("narrator", "raise")

\* C16 (as claimed): when the classifier raises or answers a text that is
\* not JSON, query understanding sets query_type qa, intent to the user's
\* query, entities to {}, appends one entry to errors and routes to SQL
\* generation.
C16_ClassifierFailureRecorded ==
    [][(/\ pc = "query_understanding"
        /\ pc' # pc
        /\ Last(calls').result \in {"raise", "garbled"})
       => (/\ Get(state', "query_type", None) = "qa"
           /\ Get(state', "intent", None) = Get(state, "user_query", "")
           /\ Get(state', "entities", None) = "{}"
           /\ Len(Get(state', "errors", <<>>)) = Len(Errors) + 1
           /\ pc' = "sql_generation")]_vars

\* C17: a data retrieval run that starts with sql_valid false does not call
\* the engine, sets query_results to [] and result_count to 0 and appends
\* one entry to errors, also when sql_query holds an earlier attempt's text.
C17_InvalidQueryNotExecuted ==
    [][(pc = "data_retrieval" /\ pc' # pc /\ ~SqlValid)
       => (/\ calls' = calls
           /\ Get(state', "query_results", NoneList) = <<>>
           /\ Get(state', "result_count", -1) = 0
           /\ Get(state', "errors", <<>>) =
                 Append(Errors, "No valid SQL query to execute"))]_vars

C17_Witness ==
    /\ pc = "validation"
    /\ SynthesisRuns = 2
    /\ Truthy(SqlQuery)
    /\ ~SqlValid
    /\ \E i \in 1..Len(calls) : calls[i] = Call("engine", "ok")
    /\ Last(calls) = Call("synthesizer", "raise")
    /\ Last(Errors) = "No valid SQL query to execute"

\* C18: a data retrieval run always hands over to validation with
\* result_count equal to the length of query_results; when the engine
\* fails it sets query_results to [] and result_count to 0 and appends the
\* engine's error to errors.
C18_EngineFailureCaught ==
    [][(pc = "data_retrieval" /\ pc' # pc)
       => (/\ pc' = "validation"
           /\ Get(state', "result_count", -1) = Len(Get(state', "query_results", NoneList))
           /\ calls' = Append(calls, Call("engine", "raise")) =>
                 /\ Get(state', "query_results", NoneList) = <<>>
                 /\ Get(state', "result_count", -1) = 0
                 /\ Get(state', "errors", <<>>) =
                       Append(Errors, "Data retrieval error"))]_vars

C18_Witness ==
    /\ pc = "validation"
    /\ Last(calls) = Call("engine", "raise")
    /\ Last(Errors) = "Data retrieval error"
    /\ QueryResults = <<>>
    /\ ResultCount = 0

\* C19: when file_metadata or table_name is missing, every SQL generation
\* run sets sql_valid false, appends an explanatory entry to errors and
\* calls neither the synthesizer nor the query validator.
C19_UnboundShortCircuits ==
    [][(pc = "sql_generation" /\ pc' # pc /\ Unbound)
       => (/\ Get(state', "sql_valid", TRUE) = FALSE
           /\ Get(state', "errors", <<>>) =
                 Append(Errors, "No file metadata or table name available")
           /\ calls' = calls)]_vars

C19_Witness == pc = "Done" /\ Unbound /\ SynthesisRuns = 2 /\ ~SqlValid

\* C20 (as claimed): when the checker call fails, validation sets
\* validation_passed true, leaves retry_count as it was, routes to insight
\* generation and appends one entry to errors.
C20_CheckerFailureRecorded ==
    [][(pc = "validation" /\ pc' # pc /\ Last(verdicts') = "error")
       => (/\ Get(state', "validation_passed", FALSE) = TRUE
           /\ Get(state', "retry_count", 0) = RetryCount
           /\ pc' = "insight_generation"
           /\ Len(Get(state', "errors", <<>>)) = Len(Errors) + 1)]_vars

ValidationErrors == Get(state, "validation_errors", <<>>)
Visualizations == Get(state, "visualizations", <<>>)
Contains(seq, x) == \E i \in 1..Len(seq) : seq[i] = x

\* C21: a validation run whose checker accepts the result sets
\* validation_passed true and validation_errors to the empty list, leaves
\* retry_count as it was and hands over to insight generation, for any
\* retry_count.
C21_PassProceedsToNarrative ==
    [][(pc = "validation" /\ pc' # pc /\ Last(verdicts') = "valid")
       => (/\ Get(state', "validation_passed", FALSE) = TRUE
           /\ Get(state', "validation_errors", NoneList) = <<>>
           /\ Get(state', "retry_count", 0) = RetryCount
           /\ pc' = "insight_generation")]_vars

C21_Witness ==
    /\ pc = "insight_generation"
    /\ verdicts = <<"invalid", "valid">>
    /\ RetryCount = 1
    /\ ValidationPassed
    /\ ResultCount = 0
    /\ ValidationErrors = <<>>

\* C22 (as claimed): when the narrator raises or answers an empty or
\* whitespace-only text, insight generation writes the fallback message and
\* appends one entry to errors.
C22_NarratorFailureRecorded ==
    [][(/\ pc = "insight_generation"
        /\ pc' # pc
        /\ Get(state', "insights", NoneList) = FallbackInsights(state))
       => Len(Get(state', "errors", <<>>)) = Len(Errors) + 1]_vars

\* C23: in every terminal state visualizations holds at most one
\* suggestion, and holds one only when query_results is non-empty and the
\* insights text has a chart keyword; its axes are the first and second
\* column of the first row.  It is empty on the summarization path and
\* when the narrator failed.
C23_VisualizationsBounded ==
    pc = "Done" =>
        /\ "visualizations" \in DOMAIN state
        /\ Len(Visualizations) <= 1
        /\ Len(Visualizations) = 1 =>
              /\ Truthy(QueryResults)
              /\ HasVizKeyword(Insights)
              /\ Visualizations[1].x_axis = RowKeys(QueryResults[1])[1]
              /\ Visualizations[1].y_axis = RowKeys(QueryResults[1])[2]
        /\ (Category = "summarization" \/ Last(calls) = Call("narrator", "raise"))
              => Len(Visualizations) = 0

C23_Witness ==
    /\ pc = "Done"
    /\ Len(Visualizations) = 1
    /\ Visualizations[1].x_axis = "c1"
    /\ Insights = <<"text", "chart">>
    /\ Len(QueryResults) = 2

\* C25: user_query, file_id, table_name and file_metadata are changed by no
\* node: every step leaves each of them as it was.
C25_RequestFieldsImmutable ==
    [][\A k \in {"user_query", "file_id", "table_name", "file_metadata"} :
          Get(state', k, "absent") = Get(state, k, "absent")]_vars

C25_Witness ==
    /\ pc = "Done"
    /\ SynthesisRuns = 2
    /\ state["user_query"] = "q"
    /\ state["file_id"] = "f1"
    /\ state["table_name"] = "table_f1"
    /\ state["file_metadata"] = "meta"

\* C27: the response built from a terminal state shows sql_attempts only
\* when the list holds more than one text; with no text or one text the
\* response carries no attempt list.
C27_AttemptsShownOnlyAfterRetry ==
    pc = "Done" =>
        /\ ChatResponseData(state).sql_attempts # NoneList =>
              (Len(History) > 1 /\ ChatResponseData(state).sql_attempts = History)
        /\ Len(History) <= 1 => ChatResponseData(state).sql_attempts = NoneList

C27_Witness ==
    /\ pc = "Done"
    /\ Len(History) = 2
    /\ ChatResponseData(state).present
    /\ ChatResponseData(state).sql_attempts = History

\* C28 (as claimed): a validation run that starts with retry_count < 2 and
\* has a structural finding (no rows, or only null values in the leading
\* rows) sets validation_passed false, routes back to SQL generation and
\* lists the finding in validation_errors, also when the checker accepts
\* the result.
C28_StructuralFindingFails ==
    [][(/\ pc = "validation"
        /\ pc' # pc
        /\ RetryCount < 2
        /\ StructuralFindings(state) # <<>>
        /\ Last(verdicts') = "valid")
       => (/\ Get(state', "validation_passed", TRUE) = FALSE
           /\ pc' = "sql_generation"
           /\ IsPrefix(StructuralFindings(state),
                       Get(state', "validation_errors", <<>>)))]_vars

\* C28 (amended): the verdict is the checker's alone.  When the checker
\* accepts the result, validation passes and validation_errors is empty
\* whatever the structural findings; when it rejects the result with
\* retry_count < 2, validation_passed is false and validation_errors holds
\* the structural findings followed by the checker's issues.
C28_VerdictIsTheCheckers ==
    [][(pc = "validation" /\ pc' # pc)
       => (/\ Last(verdicts') = "valid" =>
                 /\ Get(state', "validation_passed", FALSE) = TRUE
                 /\ Get(state', "validation_errors", NoneList) = <<>>
           /\ (Last(verdicts') = "invalid" /\ RetryCount < 2) =>
                 /\ Get(state', "validation_passed", TRUE) = FALSE
                 /\ Get(state', "validation_errors", <<>>) =
                       StructuralFindings(state) \o <<"issue">>)]_vars

C28_Witness ==
    /\ pc = "insight_generation"
    /\ verdicts = <<"valid">>
    /\ QueryResults = <<"nullrow", "nullrow">>
    /\ StructuralFindings(state) = <<"All values are NULL">>
    /\ ValidationPassed
    /\ ValidationErrors = <<>>

\* C29: every data retrieval run replaces query_results and result_count:
\* by the engine's rows when the engine ran and answered, by [] and 0 when
\* the run was skipped or the engine failed, whatever an earlier attempt
\* left there; no other node changes them.
C29_RowsReplacedByEveryExecution ==
    [][/\ (pc = "data_retrieval" /\ pc' # pc) =>
             IF calls' = Append(calls, Call("engine", "ok"))
             THEN /\ Get(state', "query_results", NoneList) \in ResultSets
                  /\ Get(state', "result_count", -1) =
                        Len(Get(state', "query_results", NoneList))
             ELSE /\ Get(state', "query_results", NoneList) = <<>>
                  /\ Get(state', "result_count", -1) = 0
       /\ pc # "data_retrieval" =>
             /\ Get(state', "query_results", NoneList) = QueryResults
             /\ Get(state', "result_count", 0) = ResultCount]_vars

\* the first attempt returned rows (its validation had no structural
\* finding), the second run was skipped and left none
C29_Witness ==
    /\ pc = "validation"
    /\ SynthesisRuns = 2
    /\ verdicts = <<"invalid">>
    /\ Contains(calls, Call("engine", "ok"))
    /\ ValidationErrors = <<"issue">>
    /\ Last(Errors) = "No valid SQL query to execute"
    /\ QueryResults = <<>>
    /\ ResultCount = 0

\* C30: the synthesizer's prompt quotes earlier errors on retry runs only:
\* the first SQL generation run (retry_count 0) quotes none even when errors
\* is non-empty; a run with retry_count > 0 and errors non-empty quotes the
\* last min(3, length) entries of errors in their order.  A run is a retry
\* exactly when retry_count > 0.
C30_ErrorContextOnRetryOnly ==
    [][(pc = "sql_generation" /\ pc' # pc)
       => (/\ (SynthesisRuns = 0) <=> (RetryCount = 0)
           /\ context' # context =>
                 LET n == Min(3, Len(Errors))
                     quoted == context'[Len(context')]
                 IN  /\ RetryCount = 0 => quoted = <<>>
                     /\ (RetryCount > 0 /\ Errors # <<>>) =>
                           /\ Len(quoted) = n
                           /\ \A i \in 1..n :
                                 quoted[i] = Errors[Len(Errors) - n + i])]_vars

C30_Witness ==
    /\ pc = "Done"
    /\ Len(context) = 2
    /\ context[1] = <<>>
    /\ context[2] = <<"Query understanding error", "Invalid SQL",
                      "No valid SQL query to execute">>

\* C26 (as claimed): a cancelled request stops between two nodes, never
\* while a node is suspended on its external call, and ends in a state whose
\* errors holds an entry recording the cancellation.
C26_CancellationRecorded ==
    pc = "Cancelled" =>
        /\ calls = <<>> \/ Last(calls).result # "cancelled"
        /\ Errors # <<>>
        /\ Last(Errors) = "Request cancelled"

\* C24: requests whose node runs interleave do not interfere: at every
\* point each request's state record, the list it refers to included, and
\* its position equal those of the same request run alone with the same
\* outcomes of its external calls; so no node run of one request changes
\* what another request reads.
C24_RequestsIndependent ==
    \A r \in DOMAIN requests :
        LET alone == RunAlone(EntryState(requests[r].entry), "query_understanding",
                              requests[r].script)
        IN  /\ View(requests[r].state) = alone.state
            /\ requests[r].pc = alone.pc

C24_Witness ==
    /\ requests # <<>>
    /\ \A r \in Requests : requests[r].pc = "Done"
    /\ Get(View(requests[1].state), "sql_attempts", <<>>)
          = << <<"SELECT">>, <<"gibberish">> >>
    /\ Get(View(requests[2].state), "sql_attempts", <<>>) = << <<"gibberish">> >>

\* the number of calls made to one external capability
CallsTo(svc) == Cardinality({i \in 1..Len(calls) : calls[i].svc = svc})

\* C31: a stage run invokes each of its external capabilities at most once,
\* so no capability is called more often than its stage has run, also when
\* a call failed; the classifier and the narrator are called at most once
\* per request, and the synthesizer, the query validator, the engine and
\* the checker at most once more than validation has routed back.
C31_OneCallPerStageRun ==
    /\ CallsTo("classifier") <= Count(trace, "query_understanding")
    /\ CallsTo("synthesizer") <= Count(trace, "sql_generation")
    /\ CallsTo("validator") <= Count(trace, "sql_generation")
    /\ CallsTo("engine") <= Count(trace, "data_retrieval")
    /\ CallsTo("checker") <= Count(trace, "validation")
    /\ CallsTo("narrator") <= Count(trace, "insight_generation")
    /\ CallsTo("classifier") <= 1
    /\ CallsTo("narrator") <= 1
    /\ \A svc \in {"synthesizer", "validator", "engine", "checker"} :
          CallsTo(svc) <= routeBacks + 1

C31_Witness ==
    /\ pc = "Done"
    /\ routeBacks = 1
    /\ calls[1] = Call("classifier", "raise")
    /\ Contains(calls, Call("synthesizer", "raise"))
    /\ CallsTo("synthesizer") = 2
    /\ CallsTo("engine") = 1
    /\ CallsTo("checker") = 2
    /\ Last(calls) = Call("narrator", "raise")

\* the keys outside the given set are the same keys with the same values
\* before and after the step
OnlyChanges(keys) ==
    \A k \in (DOMAIN state \cup DOMAIN state') \ keys :
        /\ k \in DOMAIN state
        /\ k \in DOMAIN state'
        /\ state'[k] = state[k]

\* C32: a data retrieval run changes no key of the state other than
\* query_results, result_count and errors, and a validation run none other
\* than validation_passed, validation_errors and retry_count; so neither
\* changes sql_query, sql_valid, sql_attempts, intent or entities.
C32_UnmentionedFieldsUntouched ==
    [][/\ pc = "data_retrieval" =>
              OnlyChanges({"query_results", "result_count", "errors"})
       /\ pc = "validation" =>
              OnlyChanges({"validation_passed", "validation_errors", "retry_count"})]_vars

C32_Witness ==
    /\ pc = "insight_generation"
    /\ Count(trace, "data_retrieval") = 2
    /\ Count(trace, "validation") = 2
    /\ History = << <<"gibberish">>, <<"SELECT">> >>
    /\ SqlQuery = <<"SELECT">>
    /\ SqlValid
    /\ Get(state, "intent", None) = "llm_intent"
    /\ Get(state, "entities", None) = "llm_entities"
    /\ RetryCount = 1
    /\ Truthy(QueryResults)

C34_ValidationEnteredBelowBudget ==
    [][pc = "validation" =>
          /\ RetryCount \in {0, 1}
          /\ Last(verdicts') = "invalid" =>
                /\ Get(state', "validation_passed", TRUE) = FALSE
                /\ Get(state', "retry_count", 0) = RetryCount + 1]_vars

C34_Witness ==
    /\ pc = "insight_generation"
    /\ verdicts = <<"invalid", "invalid">>
    /\ RetryCount = 2
    /\ ~ValidationPassed

\* C35: whenever sql_attempts is non-empty, sql_query is its last entry.
C35_QueryIsLastAttempt == History # <<>> => SqlQuery = Last(History)

C35_Witness ==
    /\ pc = "Done"
    /\ History = << <<"SELECT">>, <<"gibberish">> >>
    /\ SqlQuery = <<"gibberish">>
    /\ SynthesisRuns = 2

\* C36: in a terminal state with non-empty rows, sql_valid is true and the
\* rows are what the engine returned for the current sql_query, which is
\* the text the response reports next to them.
C36_RowsComeFromReportedQuery ==
    (pc = "Done" /\ Truthy(QueryResults)) =>
        /\ SqlValid
        /\ executed # <<>>
        /\ Last(executed) = SqlQuery
        /\ Count(trace, "data_retrieval") = Count(trace, "sql_generation")
        /\ Len(executed) = CallsTo("engine")
        /\ \E i \in 1..Len(calls) :
              /\ calls[i] = Call("engine", "ok")
              /\ \A j \in (i + 1)..Len(calls) :
                    calls[j].svc \notin {"engine", "synthesizer", "validator"}
        /\ ChatResponseData(state).present
        /\ ChatResponseData(state).sql = Last(executed)
        /\ ChatResponseData(state).results = QueryResults

C36_Witness ==
    /\ pc = "Done"
    /\ use_duckdb
    /\ executed = << <<"SELECT">>, <<"gibberish">> >>
    /\ routeBacks = 1
    /\ QueryResults = <<"row">>
    /\ SqlQuery = <<"gibberish">>

\* the value a reader finds under a key: an absent key reads as the value
\* chat() initialises it with
Field(s, k) == Get(s, k, HttpState(TRUE)[k])

\* the fields of the state the two entry points are compared on
ComparedFields ==
    {"query_type", "sql_query", "sql_attempts", "query_results", "result_count",
     "retry_count", "validation_passed", "errors", "insights"}

\* C37: a run started from the state of the WebSocket entry, which leaves
\* the optional keys out, runs the same nodes in the same order as a run
\* started from the fully initialised state of the HTTP entry under the
\* same outcomes of the external calls, and at every point, the end
\* included, the two states read the same query_type, sql_query,
\* sql_attempts, query_results, result_count, retry_count,
\* validation_passed, errors and insights.
C37_EntryPointsAgree ==
    LET h == requests["http"]
        w == requests["ws"]
    IN  /\ h.pc = w.pc
        /\ h.stages = w.stages
        /\ \A k \in ComparedFields : Field(h.state, k) = Field(w.state, k)

C37_Witness ==
    /\ requests["ws"].pc = "Done"
    /\ requests["http"].pc = "Done"
    /\ Len(requests["ws"].stages) = 8
    /\ Get(requests["ws"].state, "retry_count", 0) = 2
    /\ Get(requests["ws"].state, "sql_attempts", <<>>)
          = << <<"SELECT">>, <<"gibberish">> >>
    /\ "sql_valid" \in DOMAIN requests["ws"].state

\* the time to live of a set call: the ttl it was given, or the service's
\* ttl when it was given none (None or 0)
TtlOf(call) == IF call.arg \in {<<>>, <<0>>} THEN ttl ELSE call.arg[1]

\* C38: a get returns a value only when the cache is enabled, the key has
\* been set with no delete or clear since, and the latest set of the key
\* is at most its time to live in the past; the value is that set's.  A
\* get that finds an entry past its expiry returns nothing and leaves the
\* key out of the cache.  With the cache disabled every get returns
\* nothing and the cache stays empty.
C38_GetReturnsOnlyLiveEntries ==
    /\ ~enabled => DOMAIN cache = {} /\ (got # <<>> => got[1].result = <<>>)
    /\ got # <<>> =>
          LET g == got[1]
              k == g.key
          IN  /\ g.result # <<>> =>
                    /\ enabled
                    /\ lastSet[k] # <<>>
                    /\ now <= lastSet[k][1].at + TtlOf(lastSet[k][1])
                    /\ g.result = <<lastSet[k][1].value>>
              /\ (g.found # <<>> /\ now > g.found[1].expiry) =>
                    /\ g.result = <<>>
                    /\ k \notin DOMAIN cache

C38_Witness ==
    /\ enabled
    /\ got # <<>>
    /\ got[1].key = "k1"
    /\ got[1].found = <<[value |-> "v2", expiry |-> 2]>>
    /\ got[1].result = <<>>
    /\ now = 3
    /\ lastSet["k1"] = <<[at |-> 1, arg |-> <<1>>, value |-> "v2"]>>
    /\ "k1" \notin DOMAIN cache
    /\ "k2" \in DOMAIN cache

\* C39: however the sessions interleave, a client id is registered only
\* between the successful connect of its session and the session's end: it
\* is not registered before the connect, and not after handle_websocket has
\* ended, whether by the peer's disconnect or by an error, a failed error
\* reply included; and a send_message to a client id that is not
\* registered sends nothing.
C39_RegisteredOnlyWhileConnected ==
    /\ [](\A c \in Clients :
            /\ c \in active_connections => sessions[c].pc \notin {"connect", "ended"}
            /\ sessions[c].pc \in {"connect", "ended"} => c \notin active_connections)
    /\ [][\A c \in Clients : c \notin active_connections => sent'[c] = sent[c]]_vars

C39_Witness ==
    /\ sessions["c1"] = Ended("error_reply_failed")
    /\ sent["c1"] = {"connection", "status"}
    /\ "c1" \notin active_connections
    /\ sessions["c2"].pc = "chat_work"
    /\ active_connections = {"c2"}

====
